---------------------------- MODULE Spec2Model ----------------------------
(*
  A model of tp_zero1_llama2_7b_hf_pretrain.py: the metrics recorder
  (TrainingMetrics), the throughput tracker (Throughput), the telemetry
  logger's golden-value validation (Logger.log) and the training loop
  controller with its checkpoint save / resume path (train_llama).

  Numbers: wall-clock time is counted in integer ticks, a throughput is the
  exact fraction <<numerator, denominator>>, and losses are counted in tenths
  (2.5 is 25), so the relative tolerance 2.3e-1 is compared as
  100 * |a - d| <= 23 * |d|.
*)
EXTENDS Integers, Sequences, FiniteSets, TLC

VARIABLES
    \* ---- Throughput object and the clock it reads
    tput,          \* the Throughput object's fields
    now,           \* the last reading of time.time()
    tput_out,      \* what the last get_throughput call produced
    tput_steps,    \* history: the step_time of every get_throughput call
    tput_args,     \* history: moving_avg_window_size and logging_interval as given to Throughput()
    \* ---- Logger object and the environment it reads
    logger,        \* the Logger object's fields: throughputs, golden_steploss
    extract_graphs_only,  \* os.environ.get("NEURON_EXTRACT_GRAPHS_ONLY") is set
    lg_last,       \* the last Logger.log call: its arguments and whether it raised
    \* ---- metrics file and the calls made on it
    mfile,         \* the content of the metrics file (NoFile: it does not exist)
    mfile0,        \* history: the content the file had before the first call
    m_hist,        \* history: the store_metrics payloads, concatenated in call order
    p_hist,        \* history: the store_parameters payloads, in call order
    m_last,        \* the last store call: key, data, file before, error raised
    \* ---- one worker process running train_llama, and the output directory
    flags,         \* the parsed command line
    is_root,       \* xm.is_master_ordinal(local=False)
    world_size,    \* the data-parallel size
    batches_per_epoch,  \* the number of batches the loader yields per epoch
    run,           \* the number of the process (1: the first run)
    pc,            \* where the process is
    err,           \* the exception that ended the process ("none": none)
    global_step,
    global_step0,  \* history: global_step when the epoch loop was entered
    epoch0,        \* history: epoch when the epoch loop was entered
    epoch,
    training_ustep,
    running_loss,  \* the accumulator, as the sum of the microstep losses (each /grad_accum_usteps)
    step_loss,     \* running_loss_reduced_detached of train_loop_fn: bound or not, and its value
    final_loss,
    batches_left,  \* what the iterator over train_loader has left
    closures,      \* the step closures added and not yet run
    logs,          \* history: the (epoch, step, loss) of every Logger.log call of the process
    scheduler,     \* the learning-rate scheduler's state
    train_start,
    ckpt,          \* the common snapshot in output_dir
    shard_saved,   \* this worker's optimizer shard is in output_dir
    \* ---- what the process has done, in order
    enq,           \* history: global_step at every xm.add_step_closure of the process
    ran,           \* history: the closures the process has run (by global_step at their adding)
    ops,           \* the operations of the last accumulation boundary, in order
    window,        \* history: the microstep losses of the current (or just closed) accumulation window
    save_ops,      \* history: the operations of the run completion block, in order
    \* ---- allreduce_sequence_parallel_gradients on the ranks of a tensor-parallel group
    sp_params,     \* the optimizer's parameters: sequence_parallel_enabled, and whether p.grad is set
    sp_grads,      \* p.grad of every parameter on every rank (0: None)
    sp_grads0,     \* history: sp_grads when the function was called
    sp_pc,         \* every rank's position in the function, its grads list, its next reduction
    \* ---- the worker processes of one job, every one running train_llama
    wflags,        \* the command line and environment the workers share
    workers,       \* every worker's position, counters, and what it has saved
    coll,          \* history: how often every worker has entered each kind of collective
    mf_busy,       \* the workers between the read and the write of the metrics file
    mf_users,      \* history: the workers that have opened the metrics file
    log_emitters   \* history: the workers that have emitted a log record

tputVars == <<tput, now, tput_out, tput_steps, tput_args>>
loggerVars == <<logger, extract_graphs_only, lg_last>>
metricsVars == <<mfile, mfile0, m_hist, p_hist, m_last>>

trainVars == <<flags, is_root, world_size, batches_per_epoch, run, pc, err, global_step,
               global_step0, epoch0, epoch, training_ustep, running_loss, step_loss, final_loss,
               batches_left, closures, logs, scheduler, train_start, ckpt, shard_saved,
               enq, ran, ops, window, save_ops>>

spVars == <<sp_params, sp_grads, sp_grads0, sp_pc>>

workersVars == <<wflags, workers, coll, mf_busy, mf_users, log_emitters>>

vars == <<tput, now, tput_out, tput_steps, tput_args, logger, extract_graphs_only, lg_last,
          mfile, mfile0, m_hist, p_hist, m_last,
          flags, is_root, world_size, batches_per_epoch, run, pc, err, global_step,
          global_step0, epoch0, epoch, training_ustep, running_loss, step_loss, final_loss,
          batches_left, closures, logs, scheduler, train_start, ckpt, shard_saved,
          enq, ran, ops, window, save_ops, sp_params, sp_grads, sp_grads0, sp_pc,
          wflags, workers, coll, mf_busy, mf_users, log_emitters>>

\* ------------------------------------------------------------------ bounds

MaxTick == 2
MaxCalls == 5
MaxWindowArg == 3
MaxLogCalls == 2
MaxLogStep == 4
MaxStores == 3
MaxAccum == 2
MaxSteps == 3
MaxBatches == 3
MaxRuns == 2
MaxParams == 2
MaxTp == 2
MaxRanks == 2

\* ---------------------------------------------------------------- helpers

Abs(x) == IF x < 0 THEN -x ELSE x

\* math.ceil(a / b) for positive integers
Ceil(a, b) == (a + b - 1) \div b

\* an exact fraction n / d (d > 0): a loss in tenths, a throughput, a time
Frac(n, d) == [n |-> n, d |-> d]
FracAdd(a, b) == Frac(a.n * b.d + b.n * a.d, a.d * b.d)
FracLess(a, b) == a.n * b.d < b.n * a.d
FracMax(a, b) == IF FracLess(a, b) THEN b ELSE a

\* ------------------------------------------------------------- Throughput

BatchSizes == {1, 8}
WorldSizes == {1, 2}
AccumSizes == {1, 4}
LoggingIntervals == {1, 2}

NoOut == [called |-> FALSE, num |-> 0, den |-> 1, zerodiv |-> FALSE]

\* Throughput.__init__
ThroughputInit(batch_size, dp_size, grad_accum_usteps, moving_avg_window_size, logging_interval, t0) ==
    [ seqs_per_iteration |-> batch_size * dp_size * grad_accum_usteps * logging_interval,
      moving_avg_window_size |-> Ceil(moving_avg_window_size, logging_interval),
      moving_avg_window |-> << >>,
      window_time |-> 0,
      start_time |-> t0 ]

WindowAfterNoEvict(q, size) == q

\* the window after the put and the conditional get (a FIFO queue)
WindowAfter(q, size) == IF Len(q) > size THEN Tail(q) ELSE q

WindowTimeAfterNoSubtract(wt, q, size) == wt

\* window_time after the conditional "self.window_time -= self.moving_avg_window.get()"
WindowTimeAfter(wt, q, size) == IF Len(q) > size THEN wt - Head(q) ELSE wt

\* Throughput.get_throughput, called when the clock reads t
GetThroughput(self, t) ==
    LET step_time == t - self.start_time
        q1 == Append(self.moving_avg_window, step_time)
        wt1 == self.window_time + step_time
        q2 == WindowAfter(q1, self.moving_avg_window_size)
        wt2 == WindowTimeAfter(wt1, q1, self.moving_avg_window_size)
        window_size == Len(q2)
        obj == [self EXCEPT !.start_time = self.start_time + step_time,
                            !.window_time = wt2,
                            !.moving_avg_window = q2]
    IN  [ obj |-> obj,
          step_time |-> step_time,
          out |-> IF wt2 = 0
                  THEN [called |-> TRUE, num |-> window_size * self.seqs_per_iteration,
                        den |-> 0, zerodiv |-> TRUE]
                  ELSE [called |-> TRUE, num |-> window_size * self.seqs_per_iteration,
                        den |-> wt2, zerodiv |-> FALSE] ]

TputIdle ==
    /\ now = 0
    /\ tput = ThroughputInit(1, 1, 1, 1, 1, 0)
    /\ tput_args = [moving_avg_window_size |-> 1, logging_interval |-> 1]
    /\ tput_out = NoOut
    /\ tput_steps = << >>

TputInit ==
    /\ now = 0
    /\ \E b \in BatchSizes, w \in WorldSizes, g \in AccumSizes,
          m \in 1..MaxWindowArg, l \in LoggingIntervals :
          /\ tput = ThroughputInit(b, w, g, m, l, 0)
          /\ tput_args = [moving_avg_window_size |-> m, logging_interval |-> l]
    /\ tput_out = NoOut
    /\ tput_steps = << >>

\* one call of get_throughput; the clock has advanced by d since its last reading.
\* A ZeroDivisionError ends the process: no call follows it.
TputCall ==
    /\ ~tput_out.zerodiv
    /\ Len(tput_steps) < MaxCalls
    /\ \E d \in 0..MaxTick :
          LET r == GetThroughput(tput, now + d)
          IN  /\ now' = now + d
              /\ tput' = r.obj
              /\ tput_out' = r.out
              /\ tput_steps' = Append(tput_steps, r.step_time)
    /\ UNCHANGED <<tput_args, loggerVars, metricsVars, trainVars>>
    /\ UNCHANGED <<spVars, workersVars>>

TputNext == TputCall

\* ----------------------------------------------------------------- Logger

\* rtol=2.3e-1 of np.testing.assert_allclose, in hundredths
RtolPct == 23

GoldenTraces == { << >>, <<25, 23, 21>>, <<100, 25>>, <<0>> }
LossValues == {0, 21, 25, 29, 30, 31, 35, 77, 123, 124}
LossFractions == {Frac(v, 1) : v \in LossValues} \cup {Frac(61, 2), Frac(62, 2)}
SampleThroughput == Frac(64, 1)

NoLog == [called |-> FALSE, epoch |-> 0, step |-> 0, step_loss |-> Frac(0, 1), raised |-> FALSE]

\* Logger.__init__: the golden trace is read when golden_steploss.txt exists
LoggerNew(golden) == [throughputs |-> << >>, golden_steploss |-> golden]

IsCloseStrict(actual, desired) ==
    100 * Abs(actual.n - desired * actual.d) < RtolPct * Abs(desired) * actual.d

\* what np.testing.assert_allclose(actual, desired, rtol=2.3e-1) accepts
\* (atol is 0): |actual - desired| <= rtol * |desired|; actual is a fraction
IsClose(actual, desired) ==
    100 * Abs(actual.n - desired * actual.d) <= RtolPct * Abs(desired) * actual.d

\* the (1-based) position in golden_steploss that step is compared with; 0: none
GoldenIndex(self, step) ==
    LET step_0start == step - 1
    IN  IF step_0start < Len(self.golden_steploss) /\ step_0start >= 0
        THEN step_0start + 1 ELSE 0

\* Logger.log: the throughput is recorded, then the golden value is checked
LoggerLog(self, extract, ep, step, loss, throughput) ==
    LET i == GoldenIndex(self, step)
    IN  [ obj |-> [self EXCEPT !.throughputs = Append(@, throughput)],
          raised |-> /\ ~extract
                     /\ i # 0
                     /\ ~IsClose(loss, self.golden_steploss[i]) ]

LoggerIdle ==
    /\ logger = LoggerNew(<< >>)
    /\ extract_graphs_only = FALSE
    /\ lg_last = NoLog

LoggerInit ==
    /\ \E g \in GoldenTraces : logger = LoggerNew(g)
    /\ extract_graphs_only \in BOOLEAN
    /\ lg_last = NoLog

\* one call of Logger.log; an AssertionError ends the process
LogCall ==
    /\ ~lg_last.raised
    /\ Len(logger.throughputs) < MaxLogCalls
    /\ \E step \in 0..MaxLogStep, loss \in LossFractions :
          LET r == LoggerLog(logger, extract_graphs_only, 0, step, loss, SampleThroughput)
          IN  /\ logger' = r.obj
              /\ lg_last' = [called |-> TRUE, epoch |-> 0, step |-> step,
                             step_loss |-> loss, raised |-> r.raised]
    /\ UNCHANGED <<extract_graphs_only, tputVars, metricsVars, trainVars>>
    /\ UNCHANGED <<spVars, workersVars>>

LoggerNext == LogCall

\* --------------------------------------------------------- TrainingMetrics

\* JSON values, tagged: t names the kind, v holds the content.
\*   "dict":  v is a function from key strings to values (a mapping)
\*   "odict": the top-level mapping of the file, v is the sequence of its
\*            entries [k, val] in file order (next(iter(...)) is the first)
NoFile == [t |-> "absent", v |-> 0]
JNull == [t |-> "null", v |-> 0]
JNum(n) == [t |-> "num", v |-> n]
JStr(x) == [t |-> "str", v |-> x]
JList(q) == [t |-> "list", v |-> q]
JDict(f) == [t |-> "dict", v |-> f]
JODict(q) == [t |-> "odict", v |-> q]
Entry(k, val) == [k |-> k, val |-> val]
EmptyMap == [k \in {} |-> 0]

\* Python truthiness of a parsed JSON value
Truthy(x) ==
    CASE x.t = "null" -> FALSE
      [] x.t = "num" -> x.v # 0
      [] x.t = "str" -> x.v # ""
      [] x.t = "list" -> Len(x.v) > 0
      [] x.t = "dict" -> DOMAIN x.v # {}
      [] x.t = "odict" -> Len(x.v) > 0
      [] OTHER -> FALSE

\* d[k] = x on a mapping
Put(f, k, x) == [j \in DOMAIN f \cup {k} |-> IF j = k THEN x ELSE f[j]]

\* d.get(k)
Get(f, k) == IF k \in DOMAIN f THEN f[k] ELSE JNull

\* the keys of the parameter mapping, in the order train_llama writes them
ParamKeyOrder ==
    <<"Model", "Batch size", "Total steps", "Seed", "Gradient accumulation microsteps">>
ParamKeys == {"Batch size", "Seed"}
ParamValues == {1, 2}

KeysInOrder(f) == SelectSeq(ParamKeyOrder, LAMBDA k : k \in DOMAIN f)

ExtendListOverwrite(current, data) ==
    IF data.t = "list" THEN [err |-> "none", val |-> JList(data.v)]
    ELSE [err |-> "none", val |-> JList(current.v \o KeysInOrder(data.v))]

\* current.extend(data) on a list: a list is appended, a mapping gives its keys
ExtendList(current, data) ==
    IF data.t = "list" THEN [err |-> "none", val |-> JList(current.v \o data.v)]
    ELSE [err |-> "none", val |-> JList(current.v \o KeysInOrder(data.v))]

UpdateDictOverwrite(current, data) ==
    IF data.t = "dict" THEN [err |-> "none", val |-> JDict(data.v)]
    ELSE IF Len(data.v) = 0 THEN [err |-> "none", val |-> current]
    ELSE [err |-> "ValueError", val |-> current]

\* current.update(data) on a mapping: a mapping is merged (key overwrite); a
\* non-empty list of metric records is no sequence of pairs and raises
UpdateDict(current, data) ==
    IF data.t = "dict"
    THEN [err |-> "none",
          val |-> JDict([k \in DOMAIN current.v \cup DOMAIN data.v |->
                           IF k \in DOMAIN data.v THEN data.v[k] ELSE current.v[k]])]
    ELSE IF Len(data.v) = 0 THEN [err |-> "none", val |-> current]
    ELSE [err |-> "ValueError", val |-> current]

\* lines 107-114: what results[key] holds after the dispatch on its current value
StoreUnderKey(current, data) ==
    IF ~Truthy(current) THEN [err |-> "none", val |-> data]
    ELSE IF current.t = "list" THEN ExtendList(current, data)
    ELSE IF current.t = "dict" THEN UpdateDict(current, data)
    ELSE [err |-> "none", val |-> current]

\* TrainingMetrics.read_modify_write_file: the file after the call and the
\* exception raised, if any (the file is opened for writing only at the end,
\* so an exception leaves it as it was)
ReadModifyWriteFile(file, data, key) ==
    LET parsed == IF file.t = "absent" THEN JODict(<< >>) ELSE file
        result_dict == IF Truthy(parsed) THEN parsed ELSE JODict(<< >>)
    IN  IF Truthy(result_dict)
        THEN IF result_dict.t # "odict"
             THEN [file |-> file, err |-> "AttributeError"]
             ELSE LET results == result_dict.v[1].val
                  IN  IF results.t # "dict"
                      THEN [file |-> file, err |-> "AttributeError"]
                      ELSE LET r == StoreUnderKey(Get(results.v, key), data)
                           IN  IF r.err # "none"
                               THEN [file |-> file, err |-> r.err]
                               ELSE [file |-> JODict([result_dict.v EXCEPT
                                                ![1].val = JDict(Put(results.v, key, r.val))]),
                                     err |-> "none"]
        ELSE [file |-> JODict(<<Entry("results", JDict(Put(EmptyMap, key, data)))>>),
              err |-> "none"]

\* Metric(name, value, units, additional_data): value is a fraction,
\* additional_data the record [Epoch, GlobalStep, Microstep]
Metric(name, value, units, additional_data) ==
    [name |-> name, value |-> value, units |-> units, additional_data |-> additional_data]

AdditionalData(ep, gs, ustep) ==
    [Epoch |-> ep, GlobalStep |-> gs, Microstep |-> ustep]

\* the record store_metrics writes for one Metric (the timestamp is left out)
MetricRecord(m) ==
    [MetricName |-> m.name, MeasuredValue |-> m.value, Units |-> m.units,
     AdditionalData |-> m.additional_data]

\* the list store_metrics builds: one record per Metric, in order
MetricRecords(metrics) == [i \in 1..Len(metrics) |-> MetricRecord(metrics[i])]

\* TrainingMetrics.store_metrics
StoreMetrics(file, metrics) ==
    ReadModifyWriteFile(file, JList(MetricRecords(metrics)), "metrics")

\* TrainingMetrics.store_parameters
StoreParameters(file, parameters) ==
    ReadModifyWriteFile(file, JDict(parameters), "parameters")

M1 == Metric("Loss", Frac(25, 1), "", AdditionalData(0, 1, 1))
M2 == Metric("Throughput", Frac(64, 1), "seq/s", AdditionalData(0, 1, 1))
MetricPayloads == { << >>, <<M1>>, <<M2>>, <<M1, M2>> }
ParamPayloads == UNION { [D -> ParamValues] : D \in SUBSET ParamKeys }

OldRecord == MetricRecord(Metric("Loss", Frac(21, 1), "", AdditionalData(0, 1, 1)))
OldParams == [k \in {"Seed", "Model"} |-> 7]

\* what the metrics file may hold when the first call is made
PreexistingFiles ==
    { NoFile,
      JODict(<< >>),
      JODict(<<Entry("results", JDict(EmptyMap))>>),
      JODict(<<Entry("results", JDict([k \in {"metrics"} |-> JList(<<OldRecord>>)]))>>),
      JODict(<<Entry("results", JDict([k \in {"metrics", "parameters"} |->
                  IF k = "metrics" THEN JList(<< >>) ELSE JDict(OldParams)]))>>),
      JODict(<<Entry("results", JDict([k \in {"metrics", "parameters"} |-> JStr("legacy")]))>>),
      JODict(<<Entry("results", JDict([k \in {"metrics"} |-> JDict(OldParams)]))>>),
      JODict(<<Entry("inference_success", JNum(1))>>),
      JODict(<<Entry("run", JDict([k \in {"metrics"} |-> JList(<<OldRecord>>)]))>>),
      JODict(<<Entry("meta", JDict(EmptyMap)),
               Entry("results", JDict([k \in {"metrics"} |-> JList(<<OldRecord>>)]))>>),
      JList(<<1>>) }

NoStore == [called |-> FALSE, key |-> "", data |-> JNull, before |-> NoFile, err |-> "none"]

MetricsIdle ==
    /\ mfile = NoFile
    /\ mfile0 = NoFile
    /\ m_hist = << >>
    /\ p_hist = << >>
    /\ m_last = NoStore

MetricsInit ==
    /\ mfile \in PreexistingFiles
    /\ mfile0 = mfile
    /\ m_hist = << >>
    /\ p_hist = << >>
    /\ m_last = NoStore

CallStoreMetrics ==
    /\ Len(m_hist) + Len(p_hist) < MaxStores
    /\ \E metrics \in MetricPayloads :
          LET r == StoreMetrics(mfile, metrics)
          IN  /\ mfile' = r.file
              /\ m_hist' = Append(m_hist, MetricRecords(metrics))
              /\ m_last' = [called |-> TRUE, key |-> "metrics",
                            data |-> JList(MetricRecords(metrics)),
                            before |-> mfile, err |-> r.err]
    /\ UNCHANGED <<mfile0, p_hist, tputVars, loggerVars, trainVars>>
    /\ UNCHANGED <<spVars, workersVars>>

CallStoreParameters ==
    /\ Len(m_hist) + Len(p_hist) < MaxStores
    /\ \E parameters \in ParamPayloads :
          LET r == StoreParameters(mfile, parameters)
          IN  /\ mfile' = r.file
              /\ p_hist' = Append(p_hist, parameters)
              /\ m_last' = [called |-> TRUE, key |-> "parameters",
                            data |-> JDict(parameters),
                            before |-> mfile, err |-> r.err]
    /\ UNCHANGED <<mfile0, m_hist, tputVars, loggerVars, trainVars>>
    /\ UNCHANGED <<spVars, workersVars>>

MetricsNext == CallStoreMetrics \/ CallStoreParameters


\* ------------------------------------ allreduce_sequence_parallel_gradients

\* the ranks of the tensor-parallel group, and the gradient values they hold
TpRanks == 1..MaxTp
GradValues == {1, 2}

\* lines 311-319: the positions (in the order of the param_groups) of the
\* parameters whose gradient goes to the grads list
SeqParGrads(params) ==
    SelectSeq([i \in 1..Len(params) |-> i],
              LAMBDA i : params[i].has_grad /\ params[i].sequence_parallel_enabled)

RECURSIVE SumOver(_, _)
SumOver(f, S) == IF S = {} THEN 0
                 ELSE LET x == CHOOSE y \in S : TRUE IN f[x] + SumOver(f, S \ {x})

TpReduceAverage(values) == SumOver(values, DOMAIN values) \div Cardinality(DOMAIN values)

\* reduce_from_tensor_model_parallel_region: the all-reduce (sum) over the
\* tensor-parallel group, of the values the ranks bring
TpReduce(values) == SumOver(values, DOMAIN values)

SeqParIdle ==
    /\ sp_params = << >>
    /\ sp_grads = [r \in TpRanks |-> << >>]
    /\ sp_grads0 = sp_grads
    /\ sp_pc = [r \in TpRanks |-> [pc |-> "idle", grads |-> << >>, next |-> 1]]

\* every rank of the group holds the same parameters with its own gradients
SeqParInit ==
    /\ sp_params \in [1..MaxParams -> [sequence_parallel_enabled : BOOLEAN, has_grad : BOOLEAN]]
    /\ sp_grads \in [TpRanks -> [1..MaxParams -> GradValues \cup {0}]]
    /\ \A r \in TpRanks, i \in 1..MaxParams : (sp_grads[r][i] = 0) <=> ~sp_params[i].has_grad
    /\ sp_grads0 = sp_grads
    /\ sp_pc = [r \in TpRanks |-> [pc |-> "call", grads |-> << >>, next |-> 1]]

\* lines 311-319 on rank r: the grads list is built
SeqParCollect(r) ==
    /\ sp_pc[r].pc = "call"
    /\ sp_pc' = [sp_pc EXCEPT ![r] = [pc |-> "reduce", grads |-> SeqParGrads(sp_params), next |-> 1]]
    /\ UNCHANGED <<sp_params, sp_grads, sp_grads0>>
    /\ UNCHANGED <<tputVars, loggerVars, metricsVars, trainVars, workersVars>>

\* lines 320-322: the next reduction of the list, made when every rank of the
\* group has come to it; every rank's gradient then holds the reduced value
SeqParReduce ==
    /\ \A r \in TpRanks : sp_pc[r].pc = "reduce" /\ sp_pc[r].next <= Len(sp_pc[r].grads)
    /\ \A r \in TpRanks : sp_pc[r].next = sp_pc[1].next
    /\ LET i == sp_pc[1].grads[sp_pc[1].next]
           reduced == TpReduce([r \in TpRanks |-> sp_grads[r][i]])
       IN  sp_grads' = [r \in TpRanks |-> [sp_grads[r] EXCEPT ![i] = reduced]]
    /\ sp_pc' = [r \in TpRanks |-> [sp_pc[r] EXCEPT !.next = @ + 1]]
    /\ UNCHANGED <<sp_params, sp_grads0>>
    /\ UNCHANGED <<tputVars, loggerVars, metricsVars, trainVars, workersVars>>

\* the loop over the list is over on rank r: the function returns
SeqParReturn(r) ==
    /\ sp_pc[r].pc = "reduce"
    /\ sp_pc[r].next > Len(sp_pc[r].grads)
    /\ sp_pc' = [sp_pc EXCEPT ![r].pc = "returned"]
    /\ UNCHANGED <<sp_params, sp_grads, sp_grads0>>
    /\ UNCHANGED <<tputVars, loggerVars, metricsVars, trainVars, workersVars>>

SeqParNext ==
    \/ \E r \in TpRanks : SeqParCollect(r)
    \/ SeqParReduce
    \/ \E r \in TpRanks : SeqParReturn(r)

\* ------------------------------------------------- the workers of one job

\* the worker processes; the first is the lead worker
Ranks == 1..MaxRanks

\* the kinds of collective a worker enters, in the order of a boundary, and
\* the rendezvous of _mp_fn
Kinds == {"all_reduce(running_loss)", "allreduce_sequence_parallel_gradients",
          "bucket_allreduce_gradients", "rendezvous"}

WorkerNew ==
    [pc |-> "setup", waiting |-> FALSE, after |-> "none", err |-> "none",
     global_step |-> 0, training_ustep |-> 0, epoch |-> 0, left |-> 0,
     bound |-> FALSE, nlogs |-> 0, snapshot |-> FALSE, shard |-> FALSE]

WorkersIdle ==
    /\ wflags = [grad_accum_usteps |-> 1, logging_interval |-> 1, steps_this_run |-> 1,
                 batches_per_epoch |-> 1, use_zero_1 |-> FALSE, tensor_parallel_size |-> 1,
                 sequence_parallel_enabled |-> FALSE, extract_graphs_only |-> FALSE]
    /\ workers = [r \in Ranks |-> [WorkerNew EXCEPT !.pc = "idle"]]
    /\ coll = [r \in Ranks |-> [k \in Kinds |-> 0]]
    /\ mf_busy = {}
    /\ mf_users = {}
    /\ log_emitters = {}

\* ------------------------------------------------------------ train_llama

\* default=8 of --batch_size, and moving_avg_window_size=10 of Throughput
DefaultBatchSize == 8
DefaultWindow == 10

\* outputs.loss of a microstep, and what each peer rank of the data-parallel
\* group has accumulated per microstep when the losses are reduced (in tenths)
TrainLosses == {25, 35}

\* the datasets under --data_dir, as the loss the model has on each batch of an
\* epoch (the loader yields the same batches, in a cycle, in every epoch)
TrainDatasets == { <<25>>, <<35, 25>> }

\* outputs.loss on the j-th batch of an epoch
LossOfBatch(data, j) == data[((j - 1) % Len(data)) + 1]
PeerLoss == 25
TrainGoldenTraces == { << >>, <<25>>, <<35, 25>> }
TrainWorldSizes == {1, 2}

\* --grad_accum_usteps, and the batches per epoch of the datasets
TrainAccumSizes == (1..MaxAccum) \cup {4}
TrainBatchCounts == (1..MaxBatches) \cup {4}

\* lines 756-757: a negative --steps_this_run means max_steps
NormalizeSteps(steps_this_run, max_steps) ==
    IF steps_this_run < 0 THEN max_steps ELSE steps_this_run

\* get_linear_schedule_with_warmup(..., last_epoch): the LambdaLR makes its
\* initial step when it is built
SchedulerNew(last_epoch) == [last_epoch |-> last_epoch + 1, step_count |-> 1]

\* scheduler.step()
SchedulerStep(sch) == [last_epoch |-> sch.last_epoch + 1, step_count |-> sch.step_count + 1]

NoCkpt == [present |-> FALSE, keys |-> {}, by_save |-> FALSE, global_step |-> 0,
           epoch |-> 0, scheduler |-> SchedulerNew(-1)]

\* lines 623-633: the state_dict that checkpointing.save writes
SavedCkpt(gs, ep, sch) ==
    [present |-> TRUE, keys |-> {"model", "global_step", "epoch", "scheduler"},
     by_save |-> TRUE, global_step |-> gs, epoch |-> ep, scheduler |-> sch]

\* a snapshot in output_dir that holds the "optimizer" entry line 510 reads
\* (written by something other than lines 623-633)
ForeignCkpt(gs) ==
    [present |-> TRUE, keys |-> {"model", "optimizer", "global_step", "epoch", "scheduler"},
     by_save |-> FALSE, global_step |-> gs, epoch |-> 1,
     scheduler |-> [last_epoch |-> gs, step_count |-> gs + 1]]

Unbound == [bound |-> FALSE, value |-> Frac(0, 1)]
Bound(x) == [bound |-> TRUE, value |-> x]

IsAccumBoundaryLate(ustep, grad_accum_usteps) == (ustep - 1) % grad_accum_usteps = 0

\* line 432
IsAccumBoundary(ustep, grad_accum_usteps) == ustep % grad_accum_usteps = 0

LogDueAlways(gs, logging_interval) == TRUE

\* line 486
LogDue(gs, logging_interval) == gs % logging_interval = 0

\* lines 494 and 589
BudgetReached(gs, steps_this_run) == gs >= steps_this_run

ReducedLossNoAverage(own, peers, grad_accum_usteps, dp_size) ==
    Frac(own + peers, grad_accum_usteps)

\* lines 435-442: running_loss / world_size, summed over the data-parallel ranks
ReducedLoss(own, peers, grad_accum_usteps, dp_size) ==
    Frac(own + peers, grad_accum_usteps * dp_size)

GradientReductionOpsClipFirst(use_zero_1, dp_size) ==
    <<"allreduce_sequence_parallel_gradients">>
    \o (IF use_zero_1 THEN << >>
        ELSE <<"clip_grad_norm">>
             \o (IF dp_size > 1 THEN <<"bucket_allreduce_gradients">> ELSE << >>))

\* lines 445-455: the gradient reductions and the clipping before the optimizer step
GradientReductionOps(use_zero_1, dp_size) ==
    <<"allreduce_sequence_parallel_gradients">>
    \o (IF use_zero_1 THEN << >>
        ELSE (IF dp_size > 1 THEN <<"bucket_allreduce_gradients">> ELSE << >>)
             \o <<"clip_grad_norm">>)

\* lines 456-469: the optimizer step, the diagnostic norm, and the counters
OptimizerStepOps(grad_norm) ==
    <<"optimizer.step">>
    \o (IF grad_norm THEN <<"total_norm">> ELSE << >>)
    \o <<"optimizer.zero_grad", "scheduler.step", "global_step += 1">>

\* lines 433-497: the operations of one accumulation boundary, in program order
BoundaryOps(use_zero_1, dp_size, grad_norm, log_due, leave) ==
    <<"mark_step", "all_reduce(running_loss)", "running_loss.zero_">>
    \o GradientReductionOps(use_zero_1, dp_size)
    \o OptimizerStepOps(grad_norm)
    \o (IF log_due THEN <<"add_step_closure">> ELSE << >>)
    \o (IF leave THEN <<"mark_step", "break">> ELSE << >>)

CompletionOpsShardFirst(lead) ==
    <<"save_sharded_state_dict", "checkpointing.save">>
    \o (IF lead THEN <<"store_metrics">> ELSE << >>) \o <<"return">>

\* lines 589-635: the operations of the run completion block, in program order
CompletionOps(lead) ==
    (IF lead THEN <<"store_metrics">> ELSE << >>)
    \o <<"checkpointing.save", "save_sharded_state_dict", "return">>

\* what the closures read and change: the Throughput and Logger objects, the clock
Ctx(t, n, l, lg, e, r) ==
    [tput |-> t, now |-> n, logger |-> l, logs |-> lg, err |-> e, ran |-> r]

PrintLogsNextStep(args, c, ep, gs) ==
    IF is_root /\ ~extract_graphs_only
    THEN LET th == GetThroughput(c.tput, c.now + 1)
             lg == LoggerLog(c.logger, extract_graphs_only, ep, gs + 1, args.loss,
                             Frac(th.out.num, th.out.den))
         IN  IF th.out.zerodiv
             THEN Ctx(th.obj, c.now + 1, c.logger, c.logs, "ZeroDivisionError", c.ran)
             ELSE Ctx(th.obj, c.now + 1, lg.obj,
                      Append(c.logs, [epoch |-> ep, step |-> gs + 1, loss |-> args.loss]),
                      IF lg.raised THEN "AssertionError" ELSE "none", c.ran)
    ELSE c

\* lines 471-484: _print_logs, run with the epoch and global_step its enclosing
\* scope holds at that time; at least one tick has passed since the last reading
PrintLogs(args, c, ep, gs) ==
    IF is_root /\ ~extract_graphs_only
    THEN LET th == GetThroughput(c.tput, c.now + 1)
             lg == LoggerLog(c.logger, extract_graphs_only, ep, gs, args.loss,
                             Frac(th.out.num, th.out.den))
         IN  IF th.out.zerodiv
             THEN Ctx(th.obj, c.now + 1, c.logger, c.logs, "ZeroDivisionError", c.ran)
             ELSE Ctx(th.obj, c.now + 1, lg.obj,
                      Append(c.logs, [epoch |-> ep, step |-> gs, loss |-> args.loss]),
                      IF lg.raised THEN "AssertionError" ELSE "none", c.ran)
    ELSE c

MarkStepDropsClosures(q, c, ep, gs) == c

\* xm.mark_step(): the step closures run in the order they were added; a
\* closure that raises ends the process
RECURSIVE MarkStep(_, _, _, _)
MarkStep(q, c, ep, gs) ==
    IF Len(q) = 0 \/ c.err # "none" THEN c
    ELSE MarkStep(Tail(q),
                  [PrintLogs(Head(q), c, ep, gs) EXCEPT !.ran = Append(c.ran, Head(q).at)],
                  ep, gs)

Here == Ctx(tput, now, logger, logs, "none", ran)

\* the process ends with exception e, the objects as the closures left them
Crash(c, e) ==
    /\ pc' = "crashed"
    /\ err' = e
    /\ tput' = c.tput
    /\ now' = c.now
    /\ logger' = c.logger
    /\ logs' = c.logs
    /\ ran' = c.ran
    /\ closures' = << >>

TrainIdle ==
    /\ flags = [grad_accum_usteps |-> 1, logging_interval |-> 1, steps_this_run |-> 0,
                resume_ckpt |-> FALSE, batch_size |-> DefaultBatchSize, golden |-> << >>,
                use_zero_1 |-> FALSE, print_grad_norm |-> FALSE, data_dir |-> <<25>>]
    /\ enq = << >>
    /\ ran = << >>
    /\ ops = << >>
    /\ window = << >>
    /\ save_ops = << >>
    /\ is_root = FALSE
    /\ world_size = 1
    /\ batches_per_epoch = 1
    /\ run = 1
    /\ pc = "idle"
    /\ err = "none"
    /\ global_step = 0
    /\ global_step0 = 0
    /\ epoch0 = 0
    /\ epoch = 0
    /\ training_ustep = 0
    /\ running_loss = 0
    /\ step_loss = Unbound
    /\ final_loss = Frac(0, 1)
    /\ batches_left = 0
    /\ closures = << >>
    /\ logs = << >>
    /\ scheduler = SchedulerNew(-1)
    /\ train_start = 0
    /\ ckpt = NoCkpt
    /\ shard_saved = FALSE

\* the command lines, environments and output directories a first run starts with
TrainInit ==
    /\ \E g \in TrainAccumSizes, l \in LoggingIntervals, a \in (-1)..MaxSteps,
          r \in BOOLEAN, gt \in TrainGoldenTraces, z \in BOOLEAN, pg \in BOOLEAN,
          d \in TrainDatasets :
          flags = [grad_accum_usteps |-> g, logging_interval |-> l,
                   steps_this_run |-> NormalizeSteps(a, MaxSteps),
                   resume_ckpt |-> r, batch_size |-> DefaultBatchSize, golden |-> gt,
                   use_zero_1 |-> z, print_grad_norm |-> pg, data_dir |-> d]
    /\ enq = << >>
    /\ ran = << >>
    /\ ops = << >>
    /\ window = << >>
    /\ save_ops = << >>
    /\ is_root \in BOOLEAN
    \* --print_grad_norm has an effect on the lead worker only (line 460)
    /\ ~is_root => ~flags.print_grad_norm
    /\ extract_graphs_only \in BOOLEAN
    \* the environment variable and the golden file are read by the lead worker only
    /\ ~is_root => ~extract_graphs_only
    /\ (~is_root \/ extract_graphs_only) => flags.golden = << >>
    /\ world_size \in TrainWorldSizes
    /\ batches_per_epoch \in TrainBatchCounts
    /\ ckpt \in {NoCkpt, ForeignCkpt(1)}
    /\ ~flags.resume_ckpt => ckpt = NoCkpt
    /\ shard_saved = FALSE
    /\ run = 1
    /\ pc = "setup"
    /\ err = "none"
    /\ global_step = 0
    /\ global_step0 = 0
    /\ epoch0 = 0
    /\ epoch = 0
    /\ training_ustep = 0
    /\ running_loss = 0
    /\ step_loss = Unbound
    /\ final_loss = Frac(0, 1)
    /\ batches_left = 0
    /\ closures = << >>
    /\ logs = << >>
    /\ scheduler = SchedulerNew(-1)
    /\ train_start = 0
    /\ TputIdle
    /\ logger = LoggerNew(<< >>)
    /\ lg_last = NoLog
    /\ MetricsIdle
    /\ SeqParIdle
    /\ WorkersIdle

\* lines 324-413: the model, the optimizer, and on the lead worker the Logger,
\* the Throughput and the first write of the metrics file
TrainSetup ==
    /\ pc = "setup"
    /\ running_loss' = 0
    /\ IF is_root
       THEN LET r == StoreParameters(mfile,
                       [k \in {"Batch size", "Total steps", "Gradient accumulation microsteps"} |->
                          CASE k = "Batch size" -> flags.batch_size
                            [] k = "Total steps" -> flags.steps_this_run
                            [] OTHER -> flags.grad_accum_usteps])
            IN  /\ logger' = IF extract_graphs_only THEN logger ELSE LoggerNew(flags.golden)
                /\ tput' = ThroughputInit(flags.batch_size, world_size, flags.grad_accum_usteps,
                                          DefaultWindow, flags.logging_interval, now)
                /\ tput_args' = [moving_avg_window_size |-> DefaultWindow,
                                  logging_interval |-> flags.logging_interval]
                /\ mfile' = r.file
                /\ pc' = IF r.err = "none" THEN "resume" ELSE "crashed"
                /\ err' = r.err
       ELSE /\ pc' = "resume"
            /\ UNCHANGED <<logger, tput, tput_args, mfile, err>>
    /\ UNCHANGED <<now, tput_out, tput_steps, extract_graphs_only, lg_last, mfile0, m_hist,
                   p_hist, m_last, flags, is_root, world_size, batches_per_epoch, run,
                   global_step, global_step0, epoch0, epoch, training_ustep, step_loss, final_loss,
                   batches_left, closures, logs, scheduler, train_start, ckpt, shard_saved,
                   enq, ran, ops, window, save_ops>>
    /\ UNCHANGED <<spVars, workersVars>>

\* lines 506-528: the counters start at zero, or come from the snapshot
TrainResume ==
    /\ pc = "resume"
    /\ training_ustep' = 0
    /\ train_start' = now
    /\ IF flags.resume_ckpt
       THEN IF ~ckpt.present
            THEN /\ pc' = "crashed" /\ err' = "FileNotFoundError"
                 /\ UNCHANGED <<global_step, global_step0, epoch, epoch0, scheduler>>
            ELSE IF "optimizer" \notin ckpt.keys
            THEN /\ pc' = "crashed" /\ err' = "KeyError"
                 /\ UNCHANGED <<global_step, global_step0, epoch, epoch0, scheduler>>
            ELSE /\ pc' = "epoch" /\ err' = "none"
                 /\ global_step' = ckpt.global_step
                 /\ global_step0' = ckpt.global_step
                 /\ epoch' = ckpt.epoch
                 /\ epoch0' = ckpt.epoch
                 /\ scheduler' = ckpt.scheduler
       ELSE /\ pc' = "epoch" /\ err' = "none"
            /\ global_step' = 0
            /\ global_step0' = 0
            /\ epoch' = 0
            /\ epoch0' = 0
            /\ scheduler' = SchedulerNew(-1)
    /\ UNCHANGED <<tputVars, loggerVars, metricsVars, flags, is_root, world_size,
                   batches_per_epoch, run, running_loss, step_loss, final_loss,
                   batches_left, closures, logs, ckpt, shard_saved,
                   enq, ran, ops, window, save_ops>>
    /\ UNCHANGED <<spVars, workersVars>>

\* lines 543-558 and 418: train_loop_fn is called and starts a new iteration
\* over the loader; its local running_loss_reduced_detached is not bound yet
EpochBegin ==
    /\ pc = "epoch"
    /\ batches_left' = batches_per_epoch
    /\ step_loss' = Unbound
    /\ pc' = "loop"
    /\ UNCHANGED <<tputVars, loggerVars, metricsVars, flags, is_root, world_size,
                   batches_per_epoch, run, err, global_step, global_step0, epoch0, epoch,
                   training_ustep, running_loss, final_loss, closures, logs, scheduler,
                   train_start, ckpt, shard_saved, enq, ran, ops, window, save_ops>>
    /\ UNCHANGED <<spVars, workersVars>>

\* lines 418-430: the loader marks the step (the closures run) and yields a
\* batch; forward, backward, and the scaled loss goes to the accumulator
Microstep ==
    /\ pc = "loop"
    /\ batches_left > 0
    /\ LET c == MarkStep(closures, Here, epoch, global_step)
       IN  IF c.err # "none"
           THEN /\ Crash(c, c.err)
                /\ UNCHANGED <<batches_left, training_ustep, running_loss, window>>
           ELSE /\ tput' = c.tput /\ now' = c.now /\ logger' = c.logger /\ logs' = c.logs
                /\ ran' = c.ran
                /\ closures' = << >>
                /\ err' = "none"
                /\ batches_left' = batches_left - 1
                /\ training_ustep' = training_ustep + 1
                /\ \E loss \in {LossOfBatch(flags.data_dir,
                                               batches_per_epoch - batches_left + 1)} :
                      /\ running_loss' = running_loss + loss
                      /\ window' = IF IsAccumBoundary(training_ustep, flags.grad_accum_usteps)
                                    THEN <<loss>> ELSE Append(window, loss)
                /\ pc' = IF IsAccumBoundary(training_ustep + 1, flags.grad_accum_usteps)
                         THEN "boundary" ELSE "loop"
    /\ UNCHANGED <<tput_out, tput_steps, tput_args, extract_graphs_only, lg_last, metricsVars, flags,
                   is_root, world_size, batches_per_epoch, run, global_step, global_step0, epoch0,
                   epoch, step_loss, final_loss, scheduler, train_start, ckpt, shard_saved,
                   enq, ops, save_ops>>
    /\ UNCHANGED <<spVars, workersVars>>

\* lines 432-497: the losses are reduced, the accumulator is reset, the
\* gradients are reduced and clipped, the optimizer and the scheduler step,
\* global_step advances, a log closure is added when due, and at the step
\* budget the step is marked again and the loop is left
AccumulationBoundary ==
    /\ pc = "boundary"
    /\ LET c1 == MarkStep(closures, Here, epoch, global_step)
           reduced == ReducedLoss(running_loss,
                                  (world_size - 1) * flags.grad_accum_usteps * PeerLoss,
                                  flags.grad_accum_usteps, world_size)
           gs == global_step + 1
           due == LogDue(gs, flags.logging_interval)
           q == IF due
                THEN <<[loss |-> reduced, total_norm |-> 0, at |-> gs]>> ELSE << >>
           leave == BudgetReached(gs, flags.steps_this_run)
           c2 == IF leave THEN MarkStep(q, c1, epoch, gs) ELSE c1
       IN  IF c1.err # "none"
           THEN /\ Crash(c1, c1.err)
                /\ ops' = <<"mark_step">>
                /\ UNCHANGED <<running_loss, step_loss, scheduler, global_step, enq>>
           ELSE /\ running_loss' = 0
                /\ ops' = BoundaryOps(flags.use_zero_1, world_size,
                                       flags.print_grad_norm /\ is_root, due, leave)
                /\ enq' = IF due THEN Append(enq, gs) ELSE enq
                /\ step_loss' = Bound(reduced)
                /\ scheduler' = SchedulerStep(scheduler)
                /\ global_step' = gs
                /\ IF c2.err # "none"
                   THEN Crash(c2, c2.err)
                   ELSE /\ tput' = c2.tput /\ now' = c2.now /\ logger' = c2.logger
                        /\ logs' = c2.logs
                        /\ ran' = c2.ran
                        /\ closures' = IF leave THEN << >> ELSE q
                        /\ err' = "none"
                        /\ pc' = IF leave THEN "return" ELSE "loop"
    /\ UNCHANGED <<tput_out, tput_steps, tput_args, extract_graphs_only, lg_last, metricsVars, flags,
                   is_root, world_size, batches_per_epoch, run, global_step0, epoch0, epoch,
                   training_ustep, final_loss, batches_left, train_start, ckpt, shard_saved,
                   window, save_ops>>
    /\ UNCHANGED <<spVars, workersVars>>

\* line 418 at the end of the epoch's batches: the loader marks the step
\* (the closures run) and the iteration stops
LoaderExhausted ==
    /\ pc = "loop"
    /\ batches_left = 0
    /\ LET c == MarkStep(closures, Here, epoch, global_step)
       IN  IF c.err # "none"
           THEN Crash(c, c.err)
           ELSE /\ tput' = c.tput /\ now' = c.now /\ logger' = c.logger /\ logs' = c.logs
                /\ ran' = c.ran
                /\ closures' = << >>
                /\ err' = "none"
                /\ pc' = "return"
    /\ UNCHANGED <<tput_out, tput_steps, tput_args, extract_graphs_only, lg_last, metricsVars, flags,
                   is_root, world_size, batches_per_epoch, run, global_step, global_step0, epoch0,
                   epoch, training_ustep, running_loss, step_loss, final_loss, batches_left,
                   scheduler, train_start, ckpt, shard_saved, enq, ops, window, save_ops>>
    /\ UNCHANGED <<spVars, workersVars>>

\* lines 499-504: the return statement reads running_loss_reduced_detached
TrainLoopReturn ==
    /\ pc = "return"
    /\ IF step_loss.bound
       THEN /\ final_loss' = step_loss.value
            /\ pc' = "epoch_end"
            /\ err' = "none"
       ELSE /\ pc' = "crashed"
            /\ err' = "UnboundLocalError"
            /\ UNCHANGED final_loss
    /\ UNCHANGED <<tputVars, loggerVars, metricsVars, flags, is_root, world_size,
                   batches_per_epoch, run, global_step, global_step0, epoch0, epoch, training_ustep,
                   running_loss, step_loss, batches_left, closures, logs, scheduler,
                   train_start, ckpt, shard_saved, enq, ran, ops, window, save_ops>>
    /\ UNCHANGED <<spVars, workersVars>>

\* lines 560-587: the lead worker stores the epoch's loss and throughput
EpochEndMetrics ==
    /\ pc = "epoch_end"
    /\ IF is_root /\ ~extract_graphs_only
       THEN IF Len(logger.throughputs) = 0
            THEN /\ pc' = "crashed" /\ err' = "IndexError"
                 /\ UNCHANGED mfile
            ELSE LET additional_data == AdditionalData(epoch, global_step, training_ustep)
                     r == StoreMetrics(mfile,
                            << Metric("Loss", final_loss, "", additional_data),
                               Metric("Throughput", logger.throughputs[Len(logger.throughputs)],
                                      "seq/s", additional_data) >>)
                 IN  /\ mfile' = r.file
                     /\ pc' = IF r.err = "none" THEN "check" ELSE "crashed"
                     /\ err' = r.err
       ELSE /\ pc' = "check"
            /\ UNCHANGED <<mfile, err>>
    /\ UNCHANGED <<tputVars, loggerVars, mfile0, m_hist, p_hist, m_last, flags, is_root,
                   world_size, batches_per_epoch, run, global_step, global_step0, epoch0, epoch,
                   training_ustep, running_loss, step_loss, final_loss, batches_left,
                   closures, logs, scheduler, train_start, ckpt, shard_saved,
                   enq, ran, ops, window, save_ops>>
    /\ UNCHANGED <<spVars, workersVars>>

RECURSIVE FracSum(_)
FracSum(q) == IF Len(q) = 0 THEN Frac(0, 1) ELSE FracAdd(Head(q), FracSum(Tail(q)))

RECURSIVE FracMaxOf(_)
FracMaxOf(q) == IF Len(q) = 1 THEN Head(q) ELSE FracMax(Head(q), FracMaxOf(Tail(q)))

\* lines 589-635: at the step budget the lead worker stores the final
\* statistics, the common snapshot and this worker's optimizer shard are saved,
\* and train_llama returns
RunCompletion ==
    /\ pc = "check"
    /\ BudgetReached(global_step, flags.steps_this_run)
    /\ IF is_root /\ ~extract_graphs_only
       THEN LET additional_data == AdditionalData(epoch, global_step, training_ustep)
                total == FracSum(logger.throughputs)
                r == StoreMetrics(mfile,
                       << Metric("Final loss", final_loss, "", additional_data),
                          Metric("Time to train", Frac(now - train_start, 60), "minutes",
                                 additional_data),
                          Metric("Average throughput",
                                 Frac(total.n, total.d * Len(logger.throughputs)), "seq/s",
                                 additional_data),
                          Metric("Peak throughput", FracMaxOf(logger.throughputs), "seq/s",
                                 additional_data) >>)
            IN  /\ mfile' = r.file
                /\ err' = r.err
                /\ pc' = IF r.err = "none" THEN "done" ELSE "crashed"
                /\ ckpt' = IF r.err = "none"
                           THEN SavedCkpt(global_step, epoch, scheduler) ELSE ckpt
                /\ shard_saved' = IF r.err = "none" THEN TRUE ELSE shard_saved
                /\ save_ops' = IF r.err = "none" THEN CompletionOps(TRUE)
                                ELSE <<"store_metrics">>
       ELSE /\ ckpt' = SavedCkpt(global_step, epoch, scheduler)
            /\ save_ops' = CompletionOps(FALSE)
            /\ shard_saved' = TRUE
            /\ pc' = "done"
            /\ UNCHANGED <<mfile, err>>
    /\ UNCHANGED <<tputVars, loggerVars, mfile0, m_hist, p_hist, m_last, flags, is_root,
                   world_size, batches_per_epoch, run, global_step, global_step0, epoch0, epoch,
                   training_ustep, running_loss, step_loss, final_loss, batches_left,
                   closures, logs, scheduler, train_start, enq, ran, ops, window>>
    /\ UNCHANGED <<spVars, workersVars>>

\* line 637: below the step budget the next epoch begins
NextEpoch ==
    /\ pc = "check"
    /\ ~BudgetReached(global_step, flags.steps_this_run)
    /\ epoch' = epoch + 1
    /\ pc' = "epoch"
    /\ UNCHANGED <<tputVars, loggerVars, metricsVars, flags, is_root, world_size,
                   batches_per_epoch, run, err, global_step, global_step0, epoch0, training_ustep,
                   running_loss, step_loss, final_loss, batches_left, closures, logs,
                   scheduler, train_start, ckpt, shard_saved, enq, ran, ops, window, save_ops>>
    /\ UNCHANGED <<spVars, workersVars>>

\* lines 754-773: the script is started again on the same output directory and
\* metrics file, with --resume_ckpt
Restart ==
    /\ pc \in {"done", "crashed"}
    /\ run < MaxRuns
    /\ run' = run + 1
    /\ flags' = [flags EXCEPT !.resume_ckpt = TRUE]
    /\ pc' = "setup"
    /\ err' = "none"
    /\ global_step' = 0
    /\ global_step0' = 0
    /\ epoch' = 0
    /\ epoch0' = 0
    /\ training_ustep' = 0
    /\ running_loss' = 0
    /\ step_loss' = Unbound
    /\ final_loss' = Frac(0, 1)
    /\ batches_left' = 0
    /\ closures' = << >>
    /\ logs' = << >>
    /\ enq' = << >>
    /\ ran' = << >>
    /\ ops' = << >>
    /\ window' = << >>
    /\ save_ops' = << >>
    /\ scheduler' = SchedulerNew(-1)
    /\ train_start' = now
    /\ logger' = LoggerNew(<< >>)
    /\ tput' = ThroughputInit(1, 1, 1, 1, 1, 0)
    /\ tput_args' = [moving_avg_window_size |-> 1, logging_interval |-> 1]
    /\ UNCHANGED <<now, tput_out, tput_steps, extract_graphs_only, lg_last, metricsVars,
                   is_root, world_size, batches_per_epoch, ckpt, shard_saved>>
    /\ UNCHANGED <<spVars, workersVars>>

Next ==
    \/ TrainSetup
    \/ TrainResume
    \/ EpochBegin
    \/ Microstep
    \/ AccumulationBoundary
    \/ LoaderExhausted
    \/ TrainLoopReturn
    \/ EpochEndMetrics
    \/ RunCompletion
    \/ NextEpoch
    \/ Restart

\* ------------------------------------- the workers of one job: train_llama

\* the command lines the job is started with (every worker gets the same one,
\* and the loader gives every worker the same number of batches per epoch)
WorkerAccumSizes == {1, 2}
WorkerSteps == {1, 2}
WorkerBatchCounts == {1, 2}
TensorParallelSizes == {t \in 1..MaxRanks : MaxRanks % t = 0}

IsRootAny(r) == TRUE

\* line 328: xm.is_master_ordinal(local=False)
IsRoot(r) == r = 1

\* lines 472, 560, 590: is_root and not extract_graphs_only
LeadOutsideExtraction(r) == IsRoot(r) /\ ~wflags.extract_graphs_only

\* line 327: parallel_state.get_data_parallel_size()
DataParallelSize == MaxRanks \div wflags.tensor_parallel_size

\* the ranks of r's tensor-parallel group (consecutive ranks) and of its
\* data-parallel group
TpGroup(r) == {q \in Ranks : (q - 1) \div wflags.tensor_parallel_size
                              = (r - 1) \div wflags.tensor_parallel_size}
DpGroup(r) == {q \in Ranks : (q - 1) % wflags.tensor_parallel_size
                              = (r - 1) % wflags.tensor_parallel_size}

\* the workers that take part in r's collective of kind k
Group(r, k) ==
    CASE k = "all_reduce(running_loss)" -> DpGroup(r)
      [] k = "bucket_allreduce_gradients" -> DpGroup(r)
      [] k = "allreduce_sequence_parallel_gradients" -> TpGroup(r)
      [] OTHER -> Ranks

\* lines 435-455: the collectives of one accumulation boundary, in program
\* order (the sequence-parallel one when parameters are flagged, the
\* data-parallel one without sharded optimizer in a data-parallel group > 1)
BoundaryCollectives ==
    <<"all_reduce(running_loss)">>
    \o (IF wflags.sequence_parallel_enabled
        THEN <<"allreduce_sequence_parallel_gradients">> ELSE << >>)
    \o (IF ~wflags.use_zero_1 /\ DataParallelSize > 1
        THEN <<"bucket_allreduce_gradients">> ELSE << >>)

\* where a worker goes on when it leaves a collective of kind k
AfterCollective(k) ==
    IF k = "rendezvous" THEN "done"
    ELSE LET i == CHOOSE j \in 1..Len(BoundaryCollectives) : BoundaryCollectives[j] = k
         IN  IF i < Len(BoundaryCollectives) THEN BoundaryCollectives[i + 1] ELSE "step"

Terminated(r) == workers[r].pc \in {"done", "crashed"}

WorkersInit ==
    /\ \E g \in WorkerAccumSizes, l \in LoggingIntervals, n \in WorkerSteps,
          b \in WorkerBatchCounts, z \in BOOLEAN, t \in TensorParallelSizes,
          sp \in BOOLEAN, x \in BOOLEAN :
          wflags = [grad_accum_usteps |-> g, logging_interval |-> l, steps_this_run |-> n,
                    batches_per_epoch |-> b, use_zero_1 |-> z, tensor_parallel_size |-> t,
                    sequence_parallel_enabled |-> sp, extract_graphs_only |-> x]
    /\ workers = [r \in Ranks |-> WorkerNew]
    /\ coll = [r \in Ranks |-> [k \in Kinds |-> 0]]
    /\ mf_busy = {}
    /\ mf_users = {}
    /\ log_emitters = {}

\* lines 324-413 and 506-528 (a fresh run): the lead worker stores the parameters
WorkerSetup(r) ==
    /\ workers[r].pc = "setup"
    /\ workers' = [workers EXCEPT ![r].pc = IF IsRoot(r) THEN "store" ELSE "epoch",
                                  ![r].after = "epoch"]
    /\ UNCHANGED <<wflags, coll, mf_busy, mf_users, log_emitters>>
    /\ UNCHANGED <<tputVars, loggerVars, metricsVars, trainVars, spVars>>

\* lines 97-99: read_modify_write_file reads the file
WorkerStoreRead(r) ==
    /\ workers[r].pc = "store"
    /\ mf_busy' = mf_busy \cup {r}
    /\ mf_users' = mf_users \cup {r}
    /\ workers' = [workers EXCEPT ![r].pc = "storing"]
    /\ UNCHANGED <<wflags, coll, log_emitters>>
    /\ UNCHANGED <<tputVars, loggerVars, metricsVars, trainVars, spVars>>

\* lines 116-118: read_modify_write_file writes the file
WorkerStoreWrite(r) ==
    /\ workers[r].pc = "storing"
    /\ mf_busy' = mf_busy \ {r}
    /\ workers' = [workers EXCEPT ![r].pc = workers[r].after, ![r].after = "none"]
    /\ UNCHANGED <<wflags, coll, mf_users, log_emitters>>
    /\ UNCHANGED <<tputVars, loggerVars, metricsVars, trainVars, spVars>>

\* lines 543-558 and 418: train_loop_fn is called
WorkerEpochBegin(r) ==
    /\ workers[r].pc = "epoch"
    /\ workers' = [workers EXCEPT ![r].pc = "loop", ![r].bound = FALSE,
                                  ![r].left = wflags.batches_per_epoch]
    /\ UNCHANGED <<wflags, coll, mf_busy, mf_users, log_emitters>>
    /\ UNCHANGED <<tputVars, loggerVars, metricsVars, trainVars, spVars>>

\* lines 418-432: one microstep up to the test for the boundary
WorkerMicrostep(r) ==
    /\ workers[r].pc = "loop"
    /\ workers[r].left > 0
    /\ workers' = [workers EXCEPT
          ![r].left = @ - 1,
          ![r].training_ustep = @ + 1,
          ![r].pc = IF IsAccumBoundary(workers[r].training_ustep + 1, wflags.grad_accum_usteps)
                    THEN BoundaryCollectives[1] ELSE "loop"]
    /\ UNCHANGED <<wflags, coll, mf_busy, mf_users, log_emitters>>
    /\ UNCHANGED <<tputVars, loggerVars, metricsVars, trainVars, spVars>>

\* line 418: the loader has no batch left
WorkerLoaderExhausted(r) ==
    /\ workers[r].pc = "loop"
    /\ workers[r].left = 0
    /\ workers' = [workers EXCEPT ![r].pc = "return"]
    /\ UNCHANGED <<wflags, coll, mf_busy, mf_users, log_emitters>>
    /\ UNCHANGED <<tputVars, loggerVars, metricsVars, trainVars, spVars>>

\* the worker enters the collective it has come to, and waits in it
WorkerEnter(r) ==
    /\ workers[r].pc \in Kinds
    /\ ~workers[r].waiting
    /\ coll' = [coll EXCEPT ![r][workers[r].pc] = @ + 1]
    /\ workers' = [workers EXCEPT ![r].waiting = TRUE]
    /\ UNCHANGED <<wflags, mf_busy, mf_users, log_emitters>>
    /\ UNCHANGED <<tputVars, loggerVars, metricsVars, trainVars, spVars>>

\* the collective is complete when every worker of the group has entered it
WorkerLeave(r) ==
    /\ workers[r].pc \in Kinds
    /\ workers[r].waiting
    /\ \A q \in Group(r, workers[r].pc) : coll[q][workers[r].pc] >= coll[r][workers[r].pc]
    /\ workers' = [workers EXCEPT
          ![r].waiting = FALSE,
          ![r].bound = IF workers[r].pc = "all_reduce(running_loss)" THEN TRUE ELSE @,
          ![r].pc = AfterCollective(workers[r].pc)]
    /\ UNCHANGED <<wflags, coll, mf_busy, mf_users, log_emitters>>
    /\ UNCHANGED <<tputVars, loggerVars, metricsVars, trainVars, spVars>>

\* lines 456-497: the optimizer and the scheduler step, global_step advances,
\* the log record that is due is emitted by the lead worker (its closure has run
\* when train_loop_fn returns), and at the budget the loop is left
WorkerStep(r) ==
    /\ workers[r].pc = "step"
    /\ LET gs == workers[r].global_step + 1
           logged == LogDue(gs, wflags.logging_interval) /\ LeadOutsideExtraction(r)
       IN  /\ workers' = [workers EXCEPT
                 ![r].global_step = gs,
                 ![r].nlogs = IF logged THEN @ + 1 ELSE @,
                 ![r].pc = IF BudgetReached(gs, wflags.steps_this_run) THEN "return" ELSE "loop"]
           /\ log_emitters' = IF logged THEN log_emitters \cup {r} ELSE log_emitters
    /\ UNCHANGED <<wflags, coll, mf_busy, mf_users>>
    /\ UNCHANGED <<tputVars, loggerVars, metricsVars, trainVars, spVars>>

\* lines 499-504: the return statement reads running_loss_reduced_detached
WorkerReturn(r) ==
    /\ workers[r].pc = "return"
    /\ workers' = [workers EXCEPT
          ![r].pc = IF workers[r].bound THEN "epoch_end" ELSE "crashed",
          ![r].err = IF workers[r].bound THEN "none" ELSE "UnboundLocalError"]
    /\ UNCHANGED <<wflags, coll, mf_busy, mf_users, log_emitters>>
    /\ UNCHANGED <<tputVars, loggerVars, metricsVars, trainVars, spVars>>

\* lines 560-587: the lead worker reads logger.throughputs[-1] and stores the
\* epoch's metrics
WorkerEpochEnd(r) ==
    /\ workers[r].pc = "epoch_end"
    /\ workers' = [workers EXCEPT
          ![r].pc = IF LeadOutsideExtraction(r)
                    THEN (IF workers[r].nlogs = 0 THEN "crashed" ELSE "store")
                    ELSE "check",
          ![r].err = IF LeadOutsideExtraction(r) /\ workers[r].nlogs = 0
                     THEN "IndexError" ELSE "none",
          ![r].after = "check"]
    /\ UNCHANGED <<wflags, coll, mf_busy, mf_users, log_emitters>>
    /\ UNCHANGED <<tputVars, loggerVars, metricsVars, trainVars, spVars>>

\* line 637: below the step budget the next epoch begins
WorkerNextEpoch(r) ==
    /\ workers[r].pc = "check"
    /\ ~BudgetReached(workers[r].global_step, wflags.steps_this_run)
    /\ workers' = [workers EXCEPT ![r].pc = "epoch", ![r].epoch = @ + 1]
    /\ UNCHANGED <<wflags, coll, mf_busy, mf_users, log_emitters>>
    /\ UNCHANGED <<tputVars, loggerVars, metricsVars, trainVars, spVars>>

\* lines 589-621: at the step budget the lead worker stores the final metrics
WorkerComplete(r) ==
    /\ workers[r].pc = "check"
    /\ BudgetReached(workers[r].global_step, wflags.steps_this_run)
    /\ workers' = [workers EXCEPT
          ![r].pc = IF LeadOutsideExtraction(r) THEN "store" ELSE "save",
          ![r].after = "save"]
    /\ UNCHANGED <<wflags, coll, mf_busy, mf_users, log_emitters>>
    /\ UNCHANGED <<tputVars, loggerVars, metricsVars, trainVars, spVars>>

\* lines 622-635 and 642-643: the worker calls checkpointing.save, saves its
\* optimizer shard, returns from train_llama and comes to the rendezvous
WorkerSave(r) ==
    /\ workers[r].pc = "save"
    /\ workers' = [workers EXCEPT ![r].snapshot = TRUE, ![r].shard = TRUE,
                                  ![r].pc = "rendezvous"]
    /\ UNCHANGED <<wflags, coll, mf_busy, mf_users, log_emitters>>
    /\ UNCHANGED <<tputVars, loggerVars, metricsVars, trainVars, spVars>>

WorkersNext ==
    \E r \in Ranks :
        \/ WorkerSetup(r)
        \/ WorkerStoreRead(r)
        \/ WorkerStoreWrite(r)
        \/ WorkerEpochBegin(r)
        \/ WorkerMicrostep(r)
        \/ WorkerLoaderExhausted(r)
        \/ WorkerEnter(r)
        \/ WorkerLeave(r)
        \/ WorkerStep(r)
        \/ WorkerReturn(r)
        \/ WorkerEpochEnd(r)
        \/ WorkerNextEpoch(r)
        \/ WorkerComplete(r)
        \/ WorkerSave(r)

\* ------------------------------------------------------- specifications

Spec == TrainInit /\ [][Next]_vars

FairSpec == Spec /\ WF_vars(Next)

ThroughputSpecInit == TputInit /\ LoggerIdle /\ MetricsIdle /\ TrainIdle /\ SeqParIdle /\ WorkersIdle

ThroughputSpec == ThroughputSpecInit /\ [][TputNext]_vars

LoggerSpecInit == LoggerInit /\ TputIdle /\ MetricsIdle /\ TrainIdle /\ SeqParIdle /\ WorkersIdle

LoggerSpec == LoggerSpecInit /\ [][LoggerNext]_vars

MetricsSpecInit == MetricsInit /\ TputIdle /\ LoggerIdle /\ TrainIdle /\ SeqParIdle /\ WorkersIdle

MetricsSpec == MetricsSpecInit /\ [][MetricsNext]_vars

SeqParSpecInit == SeqParInit /\ TputIdle /\ LoggerIdle /\ MetricsIdle /\ TrainIdle /\ WorkersIdle

SeqParSpec == SeqParSpecInit /\ [][SeqParNext]_vars

WorkersSpecInit ==
    WorkersInit /\ TputIdle /\ LoggerIdle /\ MetricsIdle /\ TrainIdle /\ SeqParIdle

WorkersSpec == WorkersSpecInit /\ [][WorkersNext]_vars

\* ================================================================ claims

\* ---- reading the metrics file as a consumer of it does

SameValue(a, b) == a.t = b.t /\ a.v = b.v

\* the file's top-level `results` mapping (the empty mapping when it has none)
ResultsOf(file) ==
    IF file.t = "odict"
       /\ \E i \in 1..Len(file.v) : file.v[i].k = "results" /\ file.v[i].val.t = "dict"
    THEN LET i == CHOOSE i \in 1..Len(file.v) : file.v[i].k = "results"
         IN  file.v[i].val.v
    ELSE EmptyMap

HasResults(file) ==
    /\ file.t = "odict"
    /\ \E i \in 1..Len(file.v) : file.v[i].k = "results" /\ file.v[i].val.t = "dict"

MetricsEntry(file) ==
    LET r == ResultsOf(file)
    IN  IF "metrics" \in DOMAIN r /\ r["metrics"].t = "list" THEN r["metrics"].v ELSE << >>

ParamsEntry(file) ==
    LET r == ResultsOf(file)
    IN  IF "parameters" \in DOMAIN r /\ r["parameters"].t = "dict"
        THEN r["parameters"].v ELSE EmptyMap

\* a file this program wrote, or none, or one that parses to an empty value
WellFormed(file) ==
    \/ file.t = "absent"
    \/ ~Truthy(file)
    \/ /\ file.t = "odict"
       /\ file.v[1].k = "results"
       /\ file.v[1].val.t = "dict"
       /\ LET r == file.v[1].val.v
          IN  /\ "metrics" \in DOMAIN r => r["metrics"].t = "list"
              /\ "parameters" \in DOMAIN r => r["parameters"].t = "dict"

RECURSIVE Flatten(_)
Flatten(qs) == IF Len(qs) = 0 THEN << >> ELSE Head(qs) \o Flatten(Tail(qs))

IsSuffix(d, e) ==
    /\ Len(e) >= Len(d)
    /\ \A i \in 1..Len(d) : e[Len(e) - Len(d) + i] = d[i]

\* C1: at the end of every microstep (the boundary work of a microstep
\* that closes an accumulation window included), in the first epoch and in
\* later ones, global_step has grown over the value the run started with by
\* floor(training_ustep / grad_accum_usteps)
C1_StepsPerMicrosteps ==
    pc # "boundary" =>
        global_step - global_step0 = training_ustep \div flags.grad_accum_usteps

\* two accumulation windows of two microsteps, the second closed in a later epoch
C1_Witness ==
    /\ pc = "done"
    /\ epoch > 0
    /\ ~flags.resume_ckpt
    /\ flags.grad_accum_usteps = 2
    /\ training_ustep = 4
    /\ global_step = 2

\* C2: a fresh run without golden values never ends anywhere but in DONE
\* (a process that has ended with an exception never reaches it), and at DONE
\* of a fresh run with steps_this_run >= 1 global_step equals steps_this_run
C2_ReachesDone ==
    /\ (run = 1 /\ ~flags.resume_ckpt /\ flags.golden = << >>) => pc # "crashed"
    /\ (pc = "done" /\ ~flags.resume_ckpt /\ flags.steps_this_run >= 1) =>
           global_step = flags.steps_this_run

\* C3: a run started with resume_ckpt on the snapshot that lines 623-634
\* wrote gets past the load with global_step, epoch and scheduler equal to the
\* saved values, and a run that is done has saved the snapshot of its final
\* counters and its optimizer shard
C3_CheckpointRoundTrip ==
    /\ (flags.resume_ckpt /\ ckpt.by_save /\ pc = "crashed") => err # "KeyError"
    /\ (flags.resume_ckpt /\ ckpt.by_save /\ pc = "epoch" /\ training_ustep = 0) =>
           /\ global_step = ckpt.global_step
           /\ epoch = ckpt.epoch
           /\ scheduler = ckpt.scheduler
    /\ pc = "done" =>
           /\ shard_saved
           /\ ckpt = SavedCkpt(global_step, epoch, scheduler)

\* C4: on a metrics file this program wrote (or a new one), after any sequence
\* of store_metrics and store_parameters calls the `metrics` entry is what it
\* was at first followed by every store_metrics payload, in call order.
C4_MetricsAppendOnly ==
    WellFormed(mfile0) =>
        /\ MetricsEntry(mfile) = MetricsEntry(mfile0) \o Flatten(m_hist)
        /\ Len(m_hist) > 0 =>
              /\ "metrics" \in DOMAIN ResultsOf(mfile)
              /\ ResultsOf(mfile)["metrics"].t = "list"

C4_Witness ==
    /\ mfile0.t = "odict"
    /\ WellFormed(mfile0)
    /\ Len(MetricsEntry(mfile0)) = 1
    /\ Len(m_hist) = 2
    /\ Len(p_hist) = 1
    /\ Len(MetricsEntry(mfile)) = 4
    /\ m_last.key = "metrics"

\* C5: storing a mapping under "parameters" twice: every key of the second
\* store has the second store's value, every key only the first store had
\* keeps the first store's value.
C5_ParameterMerge ==
    (WellFormed(mfile0) /\ Len(p_hist) >= 2) =>
        LET p1 == p_hist[Len(p_hist) - 1]
            p2 == p_hist[Len(p_hist)]
            e == ParamsEntry(mfile)
        IN  /\ \A k \in DOMAIN p2 : k \in DOMAIN e /\ e[k] = p2[k]
            /\ \A k \in DOMAIN p1 \ DOMAIN p2 : k \in DOMAIN e /\ e[k] = p1[k]

C5_Witness ==
    /\ WellFormed(mfile0)
    /\ Len(p_hist) = 2
    /\ DOMAIN p_hist[1] = {"Batch size", "Seed"}
    /\ DOMAIN p_hist[2] = {"Seed"}
    /\ p_hist[1]["Seed"] = 1
    /\ p_hist[2]["Seed"] = 2
    /\ ParamsEntry(mfile)["Seed"] = 2
    /\ ParamsEntry(mfile)["Batch size"] = p_hist[1]["Batch size"]

\* the mapping the code stores into: the value of the file's first entry
LocatedMapping(file) ==
    IF file.t = "odict" /\ Len(file.v) > 0 /\ file.v[1].val.t = "dict"
    THEN file.v[1].val.v ELSE EmptyMap

\* what C6 says the key holds after store(data, key)
ClaimedStore(current, data) ==
    IF current.t = "list"
    THEN JList(current.v \o (IF data.t = "list" THEN data.v ELSE KeysInOrder(data.v)))
    ELSE IF current.t = "dict"
    THEN (IF data.t = "dict"
          THEN JDict([k \in DOMAIN current.v \cup DOMAIN data.v |->
                        IF k \in DOMAIN data.v THEN data.v[k] ELSE current.v[k]])
          ELSE current)
    ELSE data

\* C6: store(data, key) appends to a sequence, merges into a mapping, and in
\* every other case (key absent, or a value of any other kind) inserts the data.
C6_StoreDispatch ==
    (m_last.called /\ m_last.err = "none") =>
        LET current == Get(LocatedMapping(m_last.before), m_last.key)
            after == Get(LocatedMapping(mfile), m_last.key)
        IN  SameValue(after, ClaimedStore(current, m_last.data))

\* the data of the last store is found at results[key]
DataAtResults(file, key, data) ==
    LET r == ResultsOf(file)
    IN  /\ key \in DOMAIN r
        /\ r[key].t = data.t
        /\ IF data.t = "list"
           THEN IsSuffix(data.v, r[key].v)
           ELSE \A k \in DOMAIN data.v : k \in DOMAIN r[key].v /\ r[key].v[k] = data.v[k]

\* C7: after any store call that returns, on a file that held non-empty
\* structured content (here: whose entry under K, where the call looks for it,
\* is absent or of the kind of the data, so that the dispatch of C6 is not at issue),
\* the file has a top-level `results` mapping and the data is at results[K].
C7_ResultsMapping ==
    (/\ m_last.called
     /\ m_last.err = "none"
     /\ m_last.before.t # "absent"
     /\ Truthy(m_last.before)
     /\ Get(LocatedMapping(m_last.before), m_last.key).t \in {"null", m_last.data.t}) =>
        /\ HasResults(mfile)
        /\ DataAtResults(mfile, m_last.key, m_last.data)

\* C8: under a clock that advances by the same D > 0 before every call, every
\* call from the W-th on returns exactly seqs_per_iteration / D.
C8_FixedClockThroughput ==
    LET n == Len(tput_steps)
    IN  (/\ tput_out.called
         /\ n >= tput.moving_avg_window_size
         /\ tput_steps[1] > 0
         /\ \A i \in 1..n : tput_steps[i] = tput_steps[1]) =>
            /\ ~tput_out.zerodiv
            /\ tput_out.num * tput_steps[1] = tput.seqs_per_iteration * tput_out.den

C8_Witness ==
    /\ tput_out.called
    /\ Len(tput_steps) > tput.moving_avg_window_size + 1
    /\ tput.moving_avg_window_size > 1
    /\ \A i \in 1..Len(tput_steps) : tput_steps[i] = 2
    /\ tput.seqs_per_iteration = 64
    /\ tput_out.num = 64 * tput.moving_avg_window_size
    /\ tput_out.den = 2 * tput.moving_avg_window_size

\* C9: the divisor of get_throughput (the sum of the durations in the window)
\* is never zero when the throughput is computed.
C9_NeverDividesByZero == ~tput_out.zerodiv

\* C10: with a golden trace and outside graph-extraction mode, logging step s
\* with 1 <= s <= len(trace) raises iff |loss - trace[s-1]| > 0.23 * |trace[s-1]|;
\* without a trace, in graph-extraction mode or beyond the trace it never raises.
C10_GoldenValidation ==
    lg_last.called =>
        LET g == logger.golden_steploss
            s == lg_last.step
            a == lg_last.step_loss
        IN  /\ (~extract_graphs_only /\ 1 <= s /\ s <= Len(g)) =>
                  (lg_last.raised <=> 100 * Abs(a.n - g[s] * a.d) > 23 * Abs(g[s]) * a.d)
            /\ (extract_graphs_only \/ Len(g) = 0 \/ s > Len(g)) => ~lg_last.raised
            /\ (~extract_graphs_only /\ s = 1 /\ Len(g) >= 1 /\ g[1] = 25 /\ a = Frac(29, 1))
                  => ~lg_last.raised
            /\ (~extract_graphs_only /\ s = 1 /\ Len(g) >= 1 /\ g[1] = 25 /\ a = Frac(35, 1))
                  => lg_last.raised

C10_Witness ==
    /\ lg_last.called
    /\ lg_last.raised
    /\ ~extract_graphs_only
    /\ lg_last.step = 1
    /\ lg_last.step_loss = Frac(35, 1)
    /\ logger.golden_steploss = <<25, 23, 21>>
    /\ Len(logger.throughputs) = 2

\* the global steps after first and up to last that are multiples of interval
MultiplesBetween(first, last, interval) ==
    SelectSeq([i \in 1..(last - first) |-> first + i], LAMBDA x : x % interval = 0)

\* C11: a log closure has been added at exactly the accumulation boundaries
\* whose global_step (after the increment) is a multiple of logging_interval;
\* log records are emitted by the lead worker outside graph-extraction mode
\* only; and with grad_accum_usteps = 4 and logging_interval = 1, after the 4th
\* microstep of a fresh run global_step is 1 and one closure has been added
C11_LogEnqueue ==
    /\ enq = MultiplesBetween(global_step0, global_step, flags.logging_interval)
    /\ logs # << >> => (is_root /\ ~extract_graphs_only)
    /\ (/\ flags.grad_accum_usteps = 4 /\ flags.logging_interval = 1
        /\ ~flags.resume_ckpt /\ training_ustep = 4 /\ pc # "boundary") =>
           (global_step = 1 /\ Len(enq) = 1)

\* four microsteps of a window of four are done, the closure is added and not yet run
C11_Witness ==
    /\ flags.grad_accum_usteps = 4
    /\ flags.logging_interval = 1
    /\ training_ustep = 4
    /\ pc = "loop"
    /\ enq = <<1>>
    /\ Len(closures) = 1

\* the position of the first x in q (0: there is none), and the number of x in q
Pos(q, x) ==
    IF \E i \in 1..Len(q) : q[i] = x
    THEN CHOOSE i \in 1..Len(q) : q[i] = x /\ \A j \in 1..(i - 1) : q[j] # x
    ELSE 0

Count(q, x) == Cardinality({i \in 1..Len(q) : q[i] = x})

\* C14: at every accumulation boundary the sequence-parallel gradient
\* reduction comes first; without a sharded optimizer the data-parallel
\* gradient all-reduce (made exactly when the data-parallel size is > 1)
\* precedes the clipping, which precedes the optimizer step; with a sharded
\* optimizer the loop makes neither before the optimizer step
C14_GradientOrder ==
    LET sp == Pos(ops, "allreduce_sequence_parallel_gradients")
        dp == Pos(ops, "bucket_allreduce_gradients")
        clip == Pos(ops, "clip_grad_norm")
        step == Pos(ops, "optimizer.step")
    IN  step > 0 =>
          /\ 0 < sp /\ sp < step
          /\ flags.use_zero_1 => (dp = 0 /\ clip = 0)
          /\ ~flags.use_zero_1 =>
                /\ (dp > 0) <=> (world_size > 1)
                /\ dp > 0 => (sp < dp /\ dp < clip)
                /\ sp < clip /\ clip < step
                /\ Count(ops, "clip_grad_norm") = 1
                /\ Count(ops, "bucket_allreduce_gradients") <= 1

\* a boundary of a worker without sharded optimizer in a data-parallel group of two
C14_Witness ==
    /\ ~flags.use_zero_1
    /\ world_size = 2
    /\ Pos(ops, "bucket_allreduce_gradients") > 0
    /\ Pos(ops, "optimizer.step") > 0

\* C15: within every accumulation boundary the diagnostic gradient norm is
\* computed (on the lead worker with print_grad_norm, and only there) before the
\* optimizer step, which precedes the zeroing of the gradients, which precedes
\* the scheduler step, which precedes the increment of global_step
C15_BoundaryStepOrder ==
    LET norm == Pos(ops, "total_norm")
        step == Pos(ops, "optimizer.step")
        zero == Pos(ops, "optimizer.zero_grad")
        sched == Pos(ops, "scheduler.step")
        inc == Pos(ops, "global_step += 1")
    IN  step > 0 =>
          /\ (norm > 0) <=> (flags.print_grad_norm /\ is_root)
          /\ norm > 0 => norm < step
          /\ step < zero /\ zero < sched /\ sched < inc

RECURSIVE SumSeq(_)
SumSeq(q) == IF Len(q) = 0 THEN 0 ELSE Head(q) + SumSeq(Tail(q))

\* C16: the accumulator is zero at the start of every accumulation window, holds
\* the sum of the (scaled) losses of the window's microsteps, each added once,
\* up to the boundary, also when the window spans two epochs; the step loss
\* reported at the boundary is the sum over the data-parallel ranks of
\* accumulator / data-parallel size (the peers' accumulators hold PeerLoss per
\* microstep), and the accumulator is zero after the boundary
C16_RunningLoss ==
    LET G == flags.grad_accum_usteps
        k == training_ustep % G
        own == Frac(SumSeq(window), G)
        peer == Frac(G * PeerLoss, G)
        reported == Frac(own.n * peer.d + (world_size - 1) * peer.n * own.d,
                         own.d * peer.d * world_size)
    IN  /\ pc = "boundary" => (running_loss = SumSeq(window) /\ Len(window) = G)
        /\ (pc # "boundary" /\ k # 0) => (running_loss = SumSeq(window) /\ Len(window) = k)
        /\ (pc # "boundary" /\ k = 0) => running_loss = 0
        /\ (pc # "boundary" /\ k = 0 /\ step_loss.bound) =>
               step_loss.value.n * reported.d = reported.n * step_loss.value.d

\* a window of two microsteps that began in one epoch and was closed in the
\* next, reduced over a data-parallel group of two
C16_Witness ==
    /\ flags.grad_accum_usteps = 2
    /\ world_size = 2
    /\ epoch > 0
    /\ batches_left = batches_per_epoch - 1
    /\ training_ustep = 4
    /\ step_loss.bound
    /\ window = <<35, 35>>
    /\ running_loss = 0

\* C18: the checkpoint is saved only in the run completion block, reached at
\* the end of an epoch call with global_step >= steps_this_run: never while the
\* loop runs, once in a run that is done, the common snapshot before the optimizer
\* shard, on the lead worker (outside graph extraction) after the final metrics;
\* after the save the process is done: the counters are those of the snapshot
C18_SaveOnce ==
    /\ save_ops # << >> =>
          /\ pc = "done"
          /\ global_step >= flags.steps_this_run
          /\ ckpt = SavedCkpt(global_step, epoch, scheduler)
    /\ pc = "done" =>
          /\ Count(save_ops, "checkpointing.save") = 1
          /\ Count(save_ops, "save_sharded_state_dict") = 1
          /\ Pos(save_ops, "checkpointing.save") < Pos(save_ops, "save_sharded_state_dict")
          /\ (is_root /\ ~extract_graphs_only) =>
                /\ Pos(save_ops, "store_metrics") > 0
                /\ Pos(save_ops, "store_metrics") < Pos(save_ops, "checkpointing.save")
          /\ save_ops[Len(save_ops)] = "return"

\* the lead worker is done after an epoch rollover
C18_Witness ==
    /\ pc = "done"
    /\ is_root
    /\ ~extract_graphs_only
    /\ epoch > 0
    /\ save_ops = <<"store_metrics", "checkpointing.save", "save_sharded_state_dict", "return">>

\* C20: a closure added at a boundary that does not leave the loop is pending
\* while the loop goes on; the closures run once each, in the order of their
\* adding (the run ones are a prefix of the added ones, the pending ones the
\* rest); and none is pending when the epoch call returns, so all have run before
\* the end-of-epoch metrics and before DONE
C20_DeferredLogging ==
    LET pending == [i \in 1..Len(closures) |-> closures[i].at]
    IN  /\ pc # "crashed" => enq = ran \o pending
        /\ pc = "crashed" => (Len(ran) <= Len(enq) /\ ran = SubSeq(enq, 1, Len(ran)))
        /\ closures # << >> => pc = "loop"
        /\ pc \in {"return", "epoch_end", "check", "done"} => (closures = << >> /\ ran = enq)
        /\ (is_root /\ ~extract_graphs_only) => Len(logs) = Len(ran)

\* on the lead worker one closure has run and the next is pending, with batches left
C20_Witness ==
    /\ is_root
    /\ ~extract_graphs_only
    /\ pc = "loop"
    /\ batches_left > 0
    /\ Len(ran) = 1
    /\ Len(closures) = 1
    /\ Len(logs) = 1

\* the least c with c * b >= a
CeilingOf(a, b) == CHOOSE c \in 0..a : c * b >= a /\ (c - 1) * b < a

\* C17: after every get_throughput call the window holds at most
\* ceil(moving_avg_window_size / logging_interval) durations, which are the most
\* recent ones in the order of the calls (the oldest is the one evicted),
\* window_time is their sum, and a call that returns returns
\* (durations in the window * seqs_per_iteration) / window_time
C17_ThroughputWindow ==
    LET n == Len(tput_steps)
        q == tput.moving_avg_window
        k == Len(q)
        bound == CeilingOf(tput_args.moving_avg_window_size, tput_args.logging_interval)
    IN  /\ k <= bound
        /\ k = IF n < bound THEN n ELSE bound
        /\ q = SubSeq(tput_steps, n - k + 1, n)
        /\ tput.window_time = SumSeq(q)
        /\ (tput_out.called /\ ~tput_out.zerodiv) =>
               tput_out.num * tput.window_time = k * tput.seqs_per_iteration * tput_out.den

\* a window of two (window size 3, logging interval 2) after an eviction, the
\* durations being different
C17_Witness ==
    /\ tput_args = [moving_avg_window_size |-> 3, logging_interval |-> 2]
    /\ tput_steps = <<1, 2, 1, 2>>
    /\ tput.moving_avg_window = <<1, 2>>
    /\ tput.window_time = 3
    /\ tput_out.called
    /\ ~tput_out.zerodiv

\* C19: allreduce_sequence_parallel_gradients leaves on every rank of the
\* tensor-parallel group, for exactly the parameters flagged
\* sequence_parallel_enabled whose gradient is set, the sum (not the average)
\* of the ranks' gradients; every other gradient is never changed; the number
\* of collectives a rank makes is the number of those parameters, none when no
\* parameter is flagged
C19_SeqParReduce ==
    LET reduced(i) == sp_params[i].sequence_parallel_enabled /\ sp_params[i].has_grad
        n == Cardinality({i \in 1..Len(sp_params) : reduced(i)})
    IN  /\ \A r \in TpRanks, i \in 1..Len(sp_params) :
              ~reduced(i) => sp_grads[r][i] = sp_grads0[r][i]
        /\ \A r \in TpRanks : sp_pc[r].next - 1 <= n
        /\ (\A r \in TpRanks : sp_pc[r].pc = "returned") =>
              /\ \A r \in TpRanks : sp_pc[r].next - 1 = n
              /\ \A r \in TpRanks, i \in 1..Len(sp_params) :
                    reduced(i) =>
                       sp_grads[r][i] = SumOver([q \in TpRanks |-> sp_grads0[q][i]], TpRanks)

\* every rank has returned; one flagged parameter with gradients 1 and 2 has
\* been reduced to 3, an unflagged one has kept its different gradients
C19_Witness ==
    /\ \A r \in TpRanks : sp_pc[r].pc = "returned"
    /\ \E i, j \in 1..Len(sp_params) :
          /\ sp_params[i].sequence_parallel_enabled /\ sp_params[i].has_grad
          /\ sp_grads0[1][i] = 1 /\ sp_grads0[2][i] = 2
          /\ sp_grads[1][i] = 3 /\ sp_grads[2][i] = 3
          /\ ~sp_params[j].sequence_parallel_enabled /\ sp_params[j].has_grad
          /\ sp_grads[1][j] = 1 /\ sp_grads[2][j] = 2

\* C12: the workers of a job that are fed the same number of batches per epoch
\* enter each collective the same number of times and end at the same
\* global_step: no worker waits in a collective for a worker of its group that
\* has terminated without entering it, and when all have terminated their
\* counts of every collective and their global_step agree
C12_NoRankBlocked ==
    /\ \A r \in Ranks :
          (workers[r].pc \in Kinds /\ workers[r].waiting) =>
              \A q \in Group(r, workers[r].pc) :
                  Terminated(q) => coll[q][workers[r].pc] >= coll[r][workers[r].pc]
    /\ (\A r \in Ranks : Terminated(r)) =>
          \A r \in Ranks, q \in Ranks :
              /\ workers[r].global_step = workers[q].global_step
              /\ \A k \in Kinds : coll[r][k] = coll[q][k]

\* C13: only the lead worker reads or writes the metrics file and emits log
\* records, two read-modify-write cycles of the file never overlap, and every
\* worker that has left train_llama has called the common save and saved its
\* own optimizer shard
C13_LeadOnlyFileAccess ==
    /\ mf_users \subseteq {r \in Ranks : IsRoot(r)}
    /\ log_emitters \subseteq {r \in Ranks : IsRoot(r)}
    /\ Cardinality(mf_busy) <= 1
    /\ \A r \in Ranks :
          workers[r].pc \in {"rendezvous", "done"} =>
              workers[r].snapshot /\ workers[r].shard

\* all workers of a job of two or more have completed the run; the lead worker
\* has stored to the metrics file and emitted log records, each worker has saved
C13_Witness ==
    /\ \A r \in Ranks : workers[r].pc = "done" /\ workers[r].snapshot /\ workers[r].shard
    /\ \E r \in Ranks : ~IsRoot(r)
    /\ mf_users = {1}
    /\ log_emitters = {1}
    /\ workers[1].nlogs >= 1

InEpochLoop == pc \in {"epoch", "loop", "boundary", "return", "epoch_end", "check", "done"}

\* C21: the step budget is never overshot: once the counters are set, in a
\* fresh run and in a resumed one, global_step never exceeds the larger of its
\* initial value and steps_this_run (no boundary that starts at or above the
\* budget steps the optimizer), in particular at DONE
C21_BudgetNotOvershot ==
    InEpochLoop =>
        global_step <= (IF global_step0 > flags.steps_this_run
                        THEN global_step0 ELSE flags.steps_this_run)

\* C22: when a call of train_loop_fn comes to its return statement an
\* accumulation boundary has occurred in that call (the step loss it returns is
\* bound), and when the lead worker reads the recorded throughputs at the end
\* of an epoch or of the run at least one log record has been emitted
C22_WellDefinedReads ==
    /\ pc = "return" => step_loss.bound
    /\ (pc \in {"epoch_end", "check"} /\ is_root /\ ~extract_graphs_only) =>
           Len(logger.throughputs) > 0
    /\ err \notin {"UnboundLocalError", "IndexError"}

\* the microsteps of the boundary that made global_step gs, counted in the run
BoundaryMicrosteps(gs) ==
    [j \in 1..flags.grad_accum_usteps |->
        (gs - global_step0 - 1) * flags.grad_accum_usteps + j]

\* the epoch in which that boundary occurred: every epoch before it has
\* consumed all the batches of the loader
BoundaryEpoch(gs) ==
    epoch0 + ((gs - global_step0) * flags.grad_accum_usteps - 1) \div batches_per_epoch

\* the reduced loss of that boundary, from the dataset
BoundaryLoss(gs) ==
    LET us == BoundaryMicrosteps(gs)
        own == SumSeq([j \in 1..Len(us) |->
                          LossOfBatch(flags.data_dir, ((us[j] - 1) % batches_per_epoch) + 1)])
    IN  Frac(own + (world_size - 1) * flags.grad_accum_usteps * PeerLoss,
             flags.grad_accum_usteps * world_size)

\* C23: on the lead worker every emitted log record carries the global_step
\* and the epoch of the boundary at which its closure was added and that
\* boundary's reduced loss; the step labels are strictly increasing; and the
\* golden check has compared each loss with the trace entry of its own step
\* (a record whose loss is not close to its step's entry is the last one, and
\* the process has ended with AssertionError exactly then)
C23_LogLabels ==
    (is_root /\ ~extract_graphs_only) =>
        /\ Len(logs) <= Len(ran)
        /\ \A i \in 1..Len(logs) :
              /\ logs[i].step = ran[i]
              /\ logs[i].epoch = BoundaryEpoch(ran[i])
              /\ logs[i].loss = BoundaryLoss(ran[i])
              /\ i < Len(logs) => logs[i].step < logs[i + 1].step
              /\ (logs[i].step <= Len(flags.golden)
                   /\ ~IsClose(BoundaryLoss(ran[i]), flags.golden[logs[i].step]))
                 => (i = Len(logs) /\ err = "AssertionError")
        /\ err = "AssertionError" =>
              /\ logs # << >>
              /\ logs[Len(logs)].step <= Len(flags.golden)
              /\ ~IsClose(logs[Len(logs)].loss, flags.golden[logs[Len(logs)].step])

\* the lead worker, with a golden trace of two entries, has completed a run of
\* three steps in two epochs: the first two records come from closures that
\* ran after the loop had gone on, the second loss has passed the check
\* although it is not close to the first entry of the trace, and the third
\* record is labelled with the second epoch
C23_Witness ==
    /\ is_root
    /\ ~extract_graphs_only
    /\ flags.golden = <<35, 25>>
    /\ pc = "done"
    /\ Len(logs) = 3
    /\ \A i \in 1..3 : logs[i].step = i
    /\ ~IsClose(logs[2].loss, flags.golden[1])
    /\ logs[2].epoch < logs[3].epoch

\* the top-level entries of the file other than `results`, in order
OtherEntries(file) ==
    IF file.t = "odict" THEN SelectSeq(file.v, LAMBDA e : e.k # "results") ELSE << >>

\* C24: a store call under key K that returns leaves every other key of the
\* results mapping as it was (storing metrics does not alter parameters, nor
\* the reverse) and leaves every other top-level entry of the file as it was
C24_StoreFrame ==
    (m_last.called /\ m_last.err = "none") =>
        LET before == ResultsOf(m_last.before)
            after == ResultsOf(mfile)
        IN  /\ DOMAIN after \ {m_last.key} = DOMAIN before \ {m_last.key}
            /\ \A k \in DOMAIN before \ {m_last.key} : after[k] = before[k]
            /\ OtherEntries(mfile) = OtherEntries(m_last.before)

=============================================================================
